---- MODULE Spec2Model ----
(***************************************************************************)
(* PyClicker: the click worker (ClickWorker.run), the run controller       *)
(* (MainWindow.start_clicking / stop_clicking / toggle_start_stop /        *)
(* panic_stop and the worker-signal slots), the queued hand-off of worker  *)
(* signals to the controller's thread, and the optional global hotkey      *)
(* listener (GlobalHotkeys) with its checkbox.                             *)
(*                                                                         *)
(* Time is counted in milliseconds.  time.perf_counter() has an arbitrary  *)
(* origin, so every time a worker holds (next_t, the end of its sleep) is  *)
(* stored relative to the current reading of the clock: the reading is     *)
(* Now = 0, a value in the past is negative, and the clock advancing by d  *)
(* lowers every stored time by d.                                          *)
(***************************************************************************)
EXTENDS Integers, Sequences, FiniteSets, TLC

\* ---------------------------------------------------------------- bounds
MaxQueue == 2         \* worker signals queued for the controller's thread
MaxCount == 4         \* clicks an unbounded run is followed for
MaxLag == 3           \* how far (ms) a worker may fall behind the clock
MaxJump == 2          \* largest single advance of the clock (ms)
BurstCount == 21      \* MaxCount of the catch-up scenario
BurstLag == 20        \* MaxLag of the catch-up scenario
OverlapCount == 1     \* MaxCount of the scenario with two runs
OverlapLag == 1       \* MaxLag of the scenario with two runs

\* ------------------------------------------------------ program constants
MAX_CATCHUP == 20
SLEEP_GRANULARITY == 2
MIN_INTERVAL == 1
Now == 0

\* The threads a behaviour can create, by the order of their creation.
Workers == {1, 2}
None == 0
Listener == 1

\* Values of the settings widgets read by make_config().
IntervalsMs == {0, 1, 3}
Limits == {0, 3}
Delays == {0, 2}
ErrMsgs == {"boom", ""}

VARIABLES
    _running, _thread, _worker,   \* MainWindow fields
    lbl_clicks, lbl_status,       \* MainWindow labels
    msgbox,                       \* the message box shown last
    PYNPUT_OK, hk, chk_global,    \* pynput imported; MainWindow.hk; its checkbox
    quitReq,                      \* QThreads whose quit() was called
    events,                       \* queued worker signals, in emission order
    cfg, pc, _stop, _count,       \* per worker: config, position in run(), fields
    t, next_t, catch, wake,       \* per worker: locals of run()
    nStopped, nTicks, lateTicks,  \* history: signals each worker has emitted
    emitted, late,
    lastTick, nStarted, nCountdown,
    elapsed,                      \* history: clock time since the loop's entry
    hkNoops,                      \* history: start() calls on a started listener
    clicks, attempts, extra,      \* history: click actions of each worker
    burst, raised,
    stopInCountdown, stopReq,     \* history: stop() calls on each worker
    bnd                           \* the bounds of the scenario

ctl == <<_running, _thread, _worker, lbl_clicks, lbl_status, quitReq, msgbox>>
wrk == <<cfg, pc, _stop, _count, t, next_t, catch, wake>>
sig == <<events, nStopped, nTicks, lateTicks, emitted, late,
         lastTick, nStarted, nCountdown>>
hist == <<clicks, attempts, extra, burst, raised, stopInCountdown, stopReq>>
hkv == <<PYNPUT_OK, hk, chk_global, hkNoops>>
vars == <<ctl, wrk, sig, hist, bnd, hkv, elapsed>>

Max(a, b) == IF a >= b THEN a ELSE b
Min(a, b) == IF a <= b THEN a ELSE b

NoCfg == [interval_sec |-> 0, double_click |-> FALSE, max_clicks |-> 0,
          start_delay_sec |-> 0]

\* ------------------------------------------------------------ ClickConfig
interval_seconds(total_ms) == total_ms

ConfigValidAlways(total_ms) == TRUE

\* make_config() raises ValueError unless the interval is above 0.
ConfigValid(total_ms) == ~(interval_seconds(total_ms) <= 0)

make_config(total_ms, dbl, lim, dly) ==
    [interval_sec |-> interval_seconds(total_ms), double_click |-> dbl,
     max_clicks |-> lim, start_delay_sec |-> dly]

\* ------------------------------------------------------------ ClickWorker
ClicksPerTickSingle(c) == 1

\* What _do_click() returns.
ClicksPerTick(c) == IF c.double_click THEN 2 ELSE 1

Interval(c) == Max(MIN_INTERVAL, c.interval_sec)

LimitReachedAtZero(c, n) == n >= c.max_clicks

LimitReachedExactly(c, n) == c.max_clicks > 0 /\ n = c.max_clicks

LimitReachedOffByOne(c, n) == c.max_clicks > 0 /\ n > c.max_clicks

LimitReached(c, n) == c.max_clicks > 0 /\ n >= c.max_clicks

Ev(w, kind, n, text) == [w |-> w, kind |-> kind, n |-> n, text |-> text]

CanPost(k) == Len(events) + k <= MaxQueue

IsLate(w, evs) ==
    \E i \in 1..Len(evs) :
        /\ evs[i].kind # "stopped"
        /\ \/ nStopped[w] > 0
           \/ \E j \in 1..(i - 1) : evs[j].kind = "stopped"

Kind(e) == IF e.kind = "status" THEN e.text ELSE e.kind

NumOf(evs, kind) == Cardinality({i \in 1..Len(evs) : evs[i].kind = kind})

NumOfStatus(evs, text) ==
    Cardinality({i \in 1..Len(evs) : evs[i].kind = "status" /\ evs[i].text = text})

\* The count carried by the last tick of evs, or old when evs holds no tick.
LastTickOf(evs, old) ==
    LET ticks == {i \in 1..Len(evs) : evs[i].kind = "tick"} IN
    IF ticks = {} THEN old
    ELSE evs[CHOOSE i \in ticks : \A j \in ticks : j <= i].n

is_setNever(w) == FALSE

\* threading.Event.is_set() on the worker's stop flag.
is_set(w) == _stop[w]

\* Signal.emit() from the worker's thread: a queued call on the controller.
Post(w, evs) ==
    /\ CanPost(Len(evs))
    /\ events' = events \o evs
    /\ nStopped' = [nStopped EXCEPT ![w] = @ + NumOf(evs, "stopped")]
    /\ nTicks' = [nTicks EXCEPT ![w] = @ + NumOf(evs, "tick")]
    /\ lateTicks' = [lateTicks EXCEPT
           ![w] = @ + (IF is_set(w) THEN NumOf(evs, "tick") ELSE 0)]
    /\ emitted' = [emitted EXCEPT ![w] = @ \cup {Kind(evs[i]) : i \in 1..Len(evs)}]
    /\ late' = [late EXCEPT ![w] = @ \/ IsLate(w, evs)]
    /\ lastTick' = [lastTick EXCEPT ![w] = LastTickOf(evs, @)]
    /\ nStarted' = [nStarted EXCEPT ![w] = @ + NumOf(evs, "started")]
    /\ nCountdown' = [nCountdown EXCEPT ![w] = @ + NumOfStatus(evs, "Starting in")]

isRunning(th) == pc[th] # "none" /\ ~(th \in quitReq /\ pc[th] = "done")

RunBeginShortCountdown(w) ==
    /\ pc[w] = "idle"
    /\ _stop' = [_stop EXCEPT ![w] = FALSE]
    /\ _count' = [_count EXCEPT ![w] = 0]
    /\ t' = [t EXCEPT ![w] = cfg[w].start_delay_sec - 1]
    /\ pc' = [pc EXCEPT ![w] = "countdown"]
    /\ UNCHANGED <<ctl, sig, hist, bnd, hkv, elapsed, cfg, next_t, catch, wake>>

\* The thread's started signal invokes run(): lines 186-187.
RunBegin(w) ==
    /\ pc[w] = "idle"
    /\ _stop' = [_stop EXCEPT ![w] = FALSE]
    /\ _count' = [_count EXCEPT ![w] = 0]
    /\ t' = [t EXCEPT ![w] = cfg[w].start_delay_sec]
    /\ pc' = [pc EXCEPT ![w] = "countdown"]
    /\ UNCHANGED <<ctl, sig, hist, bnd, hkv, elapsed, cfg, next_t, catch, wake>>

\* One pass of the countdown loop (its test, status and sleep), or, with the
\* countdown over, the lines up to the entry of the steady-state loop.
CountdownStep(w) ==
    /\ pc[w] = "countdown"
    /\ IF t[w] > 0
       THEN IF is_set(w)
            THEN /\ Post(w, <<Ev(w, "stopped", 0, ""), Ev(w, "stopped", 0, "")>>)
                 /\ pc' = [pc EXCEPT ![w] = "done"]
                 /\ UNCHANGED <<t, next_t>>
            ELSE /\ Post(w, <<Ev(w, "status", t[w], "Starting in")>>)
                 /\ t' = [t EXCEPT ![w] = @ - 1]
                 /\ UNCHANGED <<pc, next_t>>
       ELSE /\ Post(w, <<Ev(w, "status", 0, "Running"), Ev(w, "started", 0, "")>>)
            /\ next_t' = [next_t EXCEPT ![w] = Now]
            /\ pc' = [pc EXCEPT ![w] = "loop"]
            /\ UNCHANGED t
    /\ UNCHANGED <<ctl, hist, bnd, hkv, elapsed, cfg, _stop, _count, catch, wake>>

\* The outer while test, the clock reading and the branch on it; with the
\* flag set, the loop's exit and the finally clause.
LoopStep(w) ==
    /\ pc[w] = "loop"
    /\ IF is_set(w)
       THEN /\ Post(w, <<Ev(w, "stopped", 0, "")>>)
            /\ pc' = [pc EXCEPT ![w] = "done"]
            /\ UNCHANGED <<catch, wake, burst>>
       ELSE /\ UNCHANGED sig
            /\ IF Now >= next_t[w]
               THEN /\ catch' = [catch EXCEPT ![w] = 0]
                    /\ pc' = [pc EXCEPT ![w] = "inner"]
                    /\ UNCHANGED <<wake, burst>>
               ELSE /\ wake' = [wake EXCEPT ![w] = Min(SLEEP_GRANULARITY, next_t[w] - Now)]
                    /\ burst' = [burst EXCEPT ![w] = 0]
                    /\ pc' = [pc EXCEPT ![w] = "sleep"]
                    /\ UNCHANGED catch
    /\ UNCHANGED <<ctl, bnd, hkv, elapsed, cfg, _stop, _count, t, next_t>>
    /\ UNCHANGED <<clicks, attempts, extra, raised, stopInCountdown, stopReq>>

\* time.sleep() returns once the clock has passed the end of the sleep.
WakeUp(w) ==
    /\ pc[w] = "sleep"
    /\ wake[w] <= Now
    /\ pc' = [pc EXCEPT ![w] = "loop"]
    /\ UNCHANGED <<ctl, sig, hist, bnd, hkv, elapsed, cfg, _stop, _count, t, next_t, catch, wake>>

InnerConditionNoStop(w) == Now >= next_t[w] /\ catch[w] < MAX_CATCHUP

InnerCondition(w) == Now >= next_t[w] /\ catch[w] < MAX_CATCHUP /\ ~is_set(w)

\* A run is followed until its counter would pass the bound.
Followed(w) == _count[w] + ClicksPerTick(cfg[w]) <= bnd.count

\* The test of the inner while loop.
InnerTest(w) ==
    /\ pc[w] = "inner"
    /\ IF InnerCondition(w)
       THEN /\ Followed(w)
            /\ pc' = [pc EXCEPT ![w] = "click"]
       ELSE pc' = [pc EXCEPT ![w] = "loop"]
    /\ UNCHANGED <<ctl, sig, hist, bnd, hkv, elapsed, cfg, _stop, _count, t, next_t, catch, wake>>

OnFailSafeNoStop(w) ==
    /\ Post(w, <<Ev(w, "status", 0, "FAILSAFE")>>)
    /\ pc' = [pc EXCEPT ![w] = "loop"]
    /\ UNCHANGED <<_stop, _count, next_t, catch, clicks, extra, burst, raised>>

\* pyautogui.FailSafeException out of _do_click(): lines 213-216.
OnFailSafe(w) ==
    /\ Post(w, <<Ev(w, "status", 0, "FAILSAFE")>>)
    /\ _stop' = [_stop EXCEPT ![w] = TRUE]
    /\ pc' = [pc EXCEPT ![w] = "loop"]
    /\ UNCHANGED <<_count, next_t, catch, clicks, extra, burst, raised>>

OnErrorNoFinally(w, msg) ==
    /\ Post(w, <<Ev(w, "error", 0, msg)>>)
    /\ raised' = [raised EXCEPT ![w] = msg]
    /\ pc' = [pc EXCEPT ![w] = "done"]
    /\ UNCHANGED <<_stop, _count, next_t, catch, clicks, extra, burst>>

\* Any other exception out of _do_click(): the except and finally clauses.
OnError(w, msg) ==
    /\ Post(w, <<Ev(w, "error", 0, msg), Ev(w, "stopped", 0, "")>>)
    /\ raised' = [raised EXCEPT ![w] = msg]
    /\ pc' = [pc EXCEPT ![w] = "done"]
    /\ UNCHANGED <<_stop, _count, next_t, catch, clicks, extra, burst>>

OnClickedRebased(w) ==
    LET n == _count[w] + ClicksPerTick(cfg[w]) IN
    /\ _count' = [_count EXCEPT ![w] = n]
    /\ clicks' = [clicks EXCEPT ![w] = @ + 1]
    /\ burst' = [burst EXCEPT ![w] = @ + 1]
    /\ extra' = [extra EXCEPT ![w] = @ + (IF is_set(w) THEN 1 ELSE 0)]
    /\ IF LimitReached(cfg[w], n)
       THEN /\ Post(w, <<Ev(w, "tick", n, ""), Ev(w, "status", 0, "limit")>>)
            /\ _stop' = [_stop EXCEPT ![w] = TRUE]
            /\ pc' = [pc EXCEPT ![w] = "loop"]
            /\ UNCHANGED <<next_t, catch>>
       ELSE /\ Post(w, <<Ev(w, "tick", n, "")>>)
            /\ next_t' = [next_t EXCEPT ![w] = Now + Interval(cfg[w])]
            /\ catch' = [catch EXCEPT ![w] = @ + 1]
            /\ pc' = [pc EXCEPT ![w] = "inner"]
            /\ UNCHANGED _stop
    /\ UNCHANGED raised

\* _do_click() returned: lines 218-228.
OnClicked(w) ==
    LET n == _count[w] + ClicksPerTick(cfg[w]) IN
    /\ _count' = [_count EXCEPT ![w] = n]
    /\ clicks' = [clicks EXCEPT ![w] = @ + 1]
    /\ burst' = [burst EXCEPT ![w] = @ + 1]
    /\ extra' = [extra EXCEPT ![w] = @ + (IF is_set(w) THEN 1 ELSE 0)]
    /\ IF LimitReached(cfg[w], n)
       THEN /\ Post(w, <<Ev(w, "tick", n, ""), Ev(w, "status", 0, "limit")>>)
            /\ _stop' = [_stop EXCEPT ![w] = TRUE]
            /\ pc' = [pc EXCEPT ![w] = "loop"]
            /\ UNCHANGED <<next_t, catch>>
       ELSE /\ Post(w, <<Ev(w, "tick", n, "")>>)
            /\ next_t' = [next_t EXCEPT ![w] = @ + Interval(cfg[w])]
            /\ catch' = [catch EXCEPT ![w] = @ + 1]
            /\ pc' = [pc EXCEPT ![w] = "inner"]
            /\ UNCHANGED _stop
    /\ UNCHANGED raised

\* One body of the inner loop: the click attempt and what follows it.
ClickStep(w, outcome, msg) ==
    /\ pc[w] = "click"
    /\ attempts' = [attempts EXCEPT ![w] = @ + 1]
    /\ CASE outcome = "failsafe" -> OnFailSafe(w)
         [] outcome = "error" -> OnError(w, msg)
         [] outcome = "ok" -> OnClicked(w)
    /\ UNCHANGED <<ctl, bnd, hkv, elapsed, cfg, t, wake, stopInCountdown, stopReq>>

\* ------------------------------------------------------------------ clock
Steady(w) == pc[w] \in {"loop", "inner", "click", "sleep"}

Parked(w) == pc[w] = "inner" /\ InnerCondition(w) /\ ~Followed(w)

Timed == {w \in Workers : Steady(w) /\ ~Parked(w)}

Tick(d) ==
    /\ Timed # {}
    /\ \A w \in Timed : next_t[w] - d >= -bnd.lag
    /\ next_t' = [w \in Workers |-> IF w \in Timed THEN next_t[w] - d ELSE next_t[w]]
    /\ wake' = [w \in Workers |-> IF w \in Timed THEN Max(0, wake[w] - d) ELSE wake[w]]
    /\ elapsed' = [w \in Workers |-> IF w \in Timed THEN elapsed[w] + d ELSE elapsed[w]]
    /\ UNCHANGED <<ctl, sig, hist, bnd, hkv, cfg, pc, _stop, _count, t, catch>>

\* ------------------------------------------------------------- MainWindow
Created == {w \in Workers : pc[w] # "none"}

\* ClickWorker.stop(), called on the controller's thread.
WorkerStop(w) ==
    /\ _stop' = [_stop EXCEPT ![w] = TRUE]
    /\ stopReq' = [stopReq EXCEPT ![w] = TRUE]
    /\ stopInCountdown' = [stopInCountdown EXCEPT
           ![w] = @ \/ (pc[w] = "countdown" /\ cfg[w].start_delay_sec > 0)]

\* MainWindow.stop_clicking(): stop() on the worker, if there is one.
StopClicking ==
    IF _worker # None
    THEN WorkerStop(_worker)
    ELSE UNCHANGED <<_stop, stopReq, stopInCountdown>>

StartClicking(total_ms, dbl, lim, dly) ==
    IF _running
    THEN UNCHANGED vars
    ELSE IF ~ConfigValid(total_ms)
    THEN /\ msgbox' = "warning"
         /\ UNCHANGED <<_running, _thread, _worker, lbl_clicks, lbl_status, quitReq>>
         /\ UNCHANGED <<wrk, sig, hist, bnd, hkv, elapsed>>
    ELSE LET w == Cardinality(Created) + 1 IN
         /\ w <= bnd.runs
         /\ _thread' = w
         /\ _worker' = w
         /\ cfg' = [cfg EXCEPT ![w] = make_config(total_ms, dbl, lim, dly)]
         /\ lbl_clicks' = 0
         /\ lbl_status' = "starting..."
         /\ pc' = [pc EXCEPT ![w] = "idle"]
         /\ UNCHANGED <<_running, quitReq, msgbox, sig, hist, bnd, hkv, elapsed>>
         /\ UNCHANGED <<_stop, _count, t, next_t, catch, wake>>

start_clicking ==
    \E total_ms \in bnd.ms, dbl \in bnd.doubles, lim \in bnd.limits, dly \in bnd.delays :
        StartClicking(total_ms, dbl, lim, dly)

stop_clickingRestarts ==
    IF _worker = None \/ pc[_worker] = "done"
    THEN start_clicking
    ELSE /\ StopClicking
         /\ UNCHANGED <<ctl, sig, bnd, hkv, elapsed, cfg, pc, _count, t, next_t, catch, wake>>
         /\ UNCHANGED <<clicks, attempts, extra, burst, raised>>

stop_clicking ==
    /\ StopClicking
    /\ UNCHANGED <<ctl, sig, bnd, hkv, elapsed, cfg, pc, _count, t, next_t, catch, wake>>
    /\ UNCHANGED <<clicks, attempts, extra, burst, raised>>

toggle_start_stop ==
    IF _running THEN stop_clicking ELSE start_clicking

panic_stop ==
    /\ lbl_status' = "PANIC STOP!"
    /\ StopClicking
    /\ UNCHANGED <<_running, _thread, _worker, lbl_clicks, quitReq, msgbox>>
    /\ UNCHANGED <<sig, bnd, hkv, elapsed, cfg, pc, _count, t, next_t, catch, wake>>
    /\ UNCHANGED <<clicks, attempts, extra, burst, raised>>

_on_started ==
    /\ _running' = TRUE
    /\ lbl_status' = "running"
    /\ UNCHANGED <<_thread, _worker, lbl_clicks, quitReq, msgbox>>

_on_stopped ==
    /\ _running' = FALSE
    /\ quitReq' = IF _thread # None /\ isRunning(_thread)
                  THEN quitReq \cup {_thread} ELSE quitReq
    /\ lbl_status' = "stopped"
    /\ UNCHANGED <<_thread, _worker, lbl_clicks, msgbox>>

_on_tick(count) ==
    /\ lbl_clicks' = count
    /\ UNCHANGED <<_running, _thread, _worker, lbl_status, quitReq, msgbox>>

_on_status(text) ==
    /\ lbl_status' = text
    /\ UNCHANGED <<_running, _thread, _worker, lbl_clicks, quitReq, msgbox>>

_on_error(msg) ==
    /\ msgbox' = "critical"
    /\ UNCHANGED <<_running, _thread, _worker, lbl_clicks, lbl_status, quitReq>>

\* The controller's event loop takes the oldest queued signal to its slot.
Deliver ==
    /\ events # <<>>
    /\ events' = Tail(events)
    /\ LET e == Head(events) IN
       CASE e.kind = "started" -> _on_started
         [] e.kind = "stopped" -> _on_stopped
         [] e.kind = "tick" -> _on_tick(e.n)
         [] e.kind = "status" -> _on_status(e.text)
         [] e.kind = "error" -> _on_error(e.text)
    /\ UNCHANGED <<wrk, hist, bnd, hkv, elapsed>>
    /\ UNCHANGED <<nStopped, nTicks, lateTicks, emitted, late, lastTick, nStarted, nCountdown>>

\* ---------------------------------------------------------- GlobalHotkeys
NoListener == [_gh |-> None, listeners |-> 0]

GlobalHotkeys_startUnguarded(h) ==
    IF ~PYNPUT_OK THEN h
    ELSE [_gh |-> Listener, listeners |-> h.listeners + 1]

\* GlobalHotkeys.start(): a new listener unless one is held or pynput is absent.
GlobalHotkeys_start(h) ==
    IF ~PYNPUT_OK \/ h._gh # None THEN h
    ELSE [_gh |-> Listener, listeners |-> h.listeners + 1]

\* GlobalHotkeys.stop(): the held listener is stopped and let go.
GlobalHotkeys_stop(h) ==
    IF h._gh = None THEN h
    ELSE [_gh |-> None, listeners |-> h.listeners - 1]

StartIsNoOp(h) == PYNPUT_OK /\ h._gh # None

\* The checkbox's toggled(enabled) signal.
_on_global_hotkeys_toggled(enabled) ==
    /\ chk_global' = enabled
    /\ IF ~PYNPUT_OK
       THEN UNCHANGED <<hk, hkNoops>>
       ELSE IF enabled
            THEN /\ hk' = GlobalHotkeys_start(hk)
                 /\ hkNoops' = hkNoops + (IF StartIsNoOp(hk) THEN 1 ELSE 0)
            ELSE /\ hk' = GlobalHotkeys_stop(hk)
                 /\ UNCHANGED hkNoops
    /\ UNCHANGED <<ctl, wrk, sig, hist, bnd, elapsed, PYNPUT_OK>>

\* The user clicks the checkbox, which is disabled when pynput is absent.
ToggleGlobalHotkeys ==
    IF PYNPUT_OK
    THEN _on_global_hotkeys_toggled(~chk_global)
    ELSE UNCHANGED vars

\* ---------------------------------------------------------- specification
InitState(b) ==
    /\ bnd = b
    /\ _running = FALSE
    /\ _thread = None
    /\ _worker = None
    /\ lbl_clicks = 0
    /\ lbl_status = "stopped"
    /\ msgbox = "none"
    /\ PYNPUT_OK \in b.pynput
    /\ chk_global = PYNPUT_OK
    /\ hk = GlobalHotkeys_start(GlobalHotkeys_start(NoListener))
    /\ hkNoops = IF PYNPUT_OK THEN 1 ELSE 0
    /\ quitReq = {}
    /\ events = <<>>
    /\ cfg = [w \in Workers |-> NoCfg]
    /\ pc = [w \in Workers |-> "none"]
    /\ _stop = [w \in Workers |-> FALSE]
    /\ _count = [w \in Workers |-> 0]
    /\ t = [w \in Workers |-> 0]
    /\ next_t = [w \in Workers |-> 0]
    /\ catch = [w \in Workers |-> 0]
    /\ wake = [w \in Workers |-> 0]
    /\ nStopped = [w \in Workers |-> 0]
    /\ nTicks = [w \in Workers |-> 0]
    /\ lateTicks = [w \in Workers |-> 0]
    /\ raised = [w \in Workers |-> "none"]
    /\ emitted = [w \in Workers |-> {}]
    /\ late = [w \in Workers |-> FALSE]
    /\ lastTick = [w \in Workers |-> 0]
    /\ nStarted = [w \in Workers |-> 0]
    /\ nCountdown = [w \in Workers |-> 0]
    /\ elapsed = [w \in Workers |-> 0]
    /\ clicks = [w \in Workers |-> 0]
    /\ attempts = [w \in Workers |-> 0]
    /\ extra = [w \in Workers |-> 0]
    /\ burst = [w \in Workers |-> 0]
    /\ stopInCountdown = [w \in Workers |-> FALSE]
    /\ stopReq = [w \in Workers |-> FALSE]

\* One run, from its start to its end, under every configuration.
Init ==
    InitState([runs |-> 1, count |-> MaxCount, lag |-> MaxLag, jumps |-> 1..MaxJump,
               ms |-> IntervalsMs, doubles |-> BOOLEAN,
               limits |-> Limits, delays |-> Delays, pynput |-> {FALSE}])

\* Two runs, which start_clicking() may start one after the other or, as
\* long as _running is False, one during the other.
InitOverlap ==
    InitState([runs |-> 2, count |-> OverlapCount, lag |-> OverlapLag, jumps |-> {1},
               ms |-> {0, 1}, doubles |-> {FALSE},
               limits |-> {0}, delays |-> {1}, pynput |-> {FALSE}])

\* The catch-up scenario: one unbounded run of 1 ms interval, followed far
\* enough for the clock to get more than MAX_CATCHUP intervals ahead of it.
InitCatchup ==
    InitState([runs |-> 1, count |-> BurstCount, lag |-> BurstLag, jumps |-> {BurstLag},
               ms |-> {1}, doubles |-> {FALSE},
               limits |-> {0}, delays |-> {0}, pynput |-> {FALSE}])

\* One run with a click limit, under every valid configuration.
InitLimit ==
    InitState([runs |-> 1, count |-> MaxCount, lag |-> MaxLag, jumps |-> 1..MaxJump,
               ms |-> IntervalsMs \ {0}, doubles |-> BOOLEAN,
               limits |-> Limits \ {0}, delays |-> Delays, pynput |-> {FALSE}])

\* One run, with pynput present or absent.
InitHotkeys ==
    InitState([runs |-> 1, count |-> MaxCount, lag |-> OverlapLag, jumps |-> {1},
               ms |-> {0, 1}, doubles |-> {FALSE},
               limits |-> Limits, delays |-> {0}, pynput |-> BOOLEAN])

WorkerStep ==
    \E w \in Workers :
        \/ RunBegin(w)
        \/ CountdownStep(w)
        \/ LoopStep(w)
        \/ WakeUp(w)
        \/ InnerTest(w)
        \/ \E outcome \in {"ok", "failsafe", "error"}, msg \in ErrMsgs :
               ClickStep(w, outcome, msg)

Clock == \E d \in bnd.jumps : Tick(d)

Next ==
    \/ start_clicking
    \/ stop_clicking
    \/ toggle_start_stop
    \/ panic_stop
    \/ ToggleGlobalHotkeys
    \/ Deliver
    \/ WorkerStep
    \/ Clock

Spec == Init /\ [][Next]_vars

SpecCatchup == InitCatchup /\ [][Next]_vars

SpecOverlap == InitOverlap /\ [][Next]_vars

SpecHotkeys == InitHotkeys /\ [][Next]_vars

\* Each thread that can run does run, the controller's event loop delivers
\* what is queued, and the clock advances; the user's actions are not forced.
Fairness ==
    /\ \A w \in Workers :
           /\ WF_vars(RunBegin(w))
           /\ WF_vars(CountdownStep(w))
           /\ WF_vars(LoopStep(w))
           /\ WF_vars(WakeUp(w))
           /\ WF_vars(InnerTest(w))
           /\ WF_vars(\E outcome \in {"ok", "failsafe", "error"}, msg \in ErrMsgs :
                         ClickStep(w, outcome, msg))
    /\ WF_vars(Deliver)
    /\ WF_vars(Clock)

FairSpec == Init /\ [][Next]_vars /\ Fairness

FairSpecLimit == InitLimit /\ [][Next]_vars /\ Fairness

TypeOK ==
    /\ _running \in BOOLEAN
    /\ _thread \in Workers \cup {None}
    /\ _worker = _thread
    /\ Len(events) <= MaxQueue
    /\ \A w \in Workers : _count[w] \in 0..bnd.count
\* ----------------------------------------------------------------- claims
\* A worker whose thread was started and that has emitted no stopped yet.
Active(w) == pc[w] # "none" /\ nStopped[w] = 0

CreatedNext == {w \in Workers : pc'[w] # "none"}

\* C1: every run emits stopped exactly once, and emits nothing after it:
\* never more than one stopped, no other signal after a stopped, and a run
\* that has ended has emitted one.
C1_ExactlyOneStoppedLast ==
    \A w \in Workers :
        /\ nStopped[w] <= 1
        /\ ~late[w]
        /\ pc[w] = "done" => nStopped[w] = 1

\* C2: start_clicking() invoked while a started worker has not emitted
\* stopped creates no thread or worker and leaves the current worker and the
\* displayed click count as they are.
C2_StartWhileActiveIsNoOp ==
    [][((\E w \in Workers : Active(w)) /\ start_clicking)
          => /\ CreatedNext = Created
             /\ _thread' = _thread
             /\ _worker' = _worker
             /\ lbl_clicks' = lbl_clicks]_vars

C4_SecondToggleStops ==
    [][(toggle_start_stop /\ _worker # None /\ Active(_worker))
          => /\ CreatedNext = Created
             /\ _stop'[_worker] = TRUE]_vars

\* C5: with max_clicks = N > 0 the counter never passes N + clicksPerTick - 1;
\* as soon as it has reached N the limit status has been emitted, the stop
\* flag is set and the worker is out of the inner loop for good; and the
\* limit status is emitted only with the counter at N or above.
C5_LimitBoundsCounter ==
    \A w \in Workers :
        LET N == cfg[w].max_clicks IN
        N > 0 =>
            /\ _count[w] <= N + ClicksPerTick(cfg[w]) - 1
            /\ _count[w] >= N =>
                   /\ "limit" \in emitted[w]
                   /\ _stop[w]
                   /\ pc[w] \in {"loop", "done"}
            /\ "limit" \in emitted[w] => _count[w] >= N

C5_Witness ==
    \E w \in Workers :
        /\ pc[w] = "done"
        /\ "limit" \in emitted[w]
        /\ cfg[w].double_click
        /\ _count[w] = cfg[w].max_clicks + 1
        /\ clicks[w] = 2

\* C6: after the failsafe was raised on a click attempt, that attempt is
\* neither counted nor ticked, the failsafe status has been emitted, the stop
\* flag is set, the worker is out of the inner loop for good, no error is
\* emitted, and the run ends with one stopped.
C6_FailsafeStopsRun ==
    \A w \in Workers :
        "FAILSAFE" \in emitted[w] =>
            /\ attempts[w] = clicks[w] + 1
            /\ _count[w] = clicks[w] * ClicksPerTick(cfg[w])
            /\ nTicks[w] = clicks[w]
            /\ _stop[w]
            /\ pc[w] \in {"loop", "done"}
            /\ "error" \notin emitted[w]
            /\ ~late[w]
            /\ pc[w] = "done" => nStopped[w] = 1

C6_Witness ==
    \E w \in Workers :
        /\ "FAILSAFE" \in emitted[w]
        /\ attempts[w] = 3
        /\ pc[w] = "done"

\* C7: after another exception was raised on a click attempt, the run has
\* ended: an error signal carrying the exception's message was emitted and
\* then one stopped, the attempt is neither counted nor ticked, and no click
\* is attempted any more.
C7_ErrorEndsRun ==
    \A w \in Workers :
        /\ "error" \in emitted[w] =>
               /\ pc[w] = "done"
               /\ nStopped[w] = 1
               /\ ~late[w]
               /\ attempts[w] = clicks[w] + 1
               /\ _count[w] = clicks[w] * ClicksPerTick(cfg[w])
               /\ nTicks[w] = clicks[w]
        /\ \A i \in 1..Len(events) :
               (events[i].w = w /\ events[i].kind = "error") =>
                   /\ events[i].text = raised[w]
                   /\ i < Len(events)
                   /\ events[i + 1] = Ev(w, "stopped", 0, "")

C7_Witness ==
    \E w \in Workers :
        /\ "error" \in emitted[w]
        /\ raised[w] = "boom"
        /\ attempts[w] = 2
        /\ Len(events) >= 2
        /\ events[1].kind = "error"

\* C8: a worker fires at most MAX_CATCHUP click actions between two sleeps,
\* however far the clock has run ahead of next_t.
C8_BurstBounded ==
    \A w \in Workers : burst[w] <= MAX_CATCHUP

\* C9: with its stop flag set, a worker performs at most one more click
\* action and emits at most one more tick.
C9_OneClickAfterStop ==
    \A w \in Workers : extra[w] <= 1 /\ lateTicks[w] <= 1

C9_Witness ==
    \E w \in Workers :
        /\ stopReq[w]
        /\ extra[w] = 1
        /\ lateTicks[w] = 1
        /\ clicks[w] >= 2
        /\ pc[w] = "done"

\* C10: a worker whose stop flag was set during its start-delay countdown
\* performs no click, keeps its counter at 0 and emits no tick, and has
\* emitted stopped when it ends.
C10_StopInCountdownNoClicks ==
    \A w \in Workers :
        stopInCountdown[w] =>
            /\ clicks[w] = 0
            /\ attempts[w] = 0
            /\ _count[w] = 0
            /\ nTicks[w] = 0
            /\ pc[w] \in {"countdown", "loop", "done"}
            /\ pc[w] = "done" => nStopped[w] >= 1

\* The stop arrived in the last second of the countdown: the run went on to
\* emit started, and ended.
C10_Witness ==
    \E w \in Workers :
        /\ stopInCountdown[w]
        /\ "started" \in emitted[w]
        /\ pc[w] = "done"

\* The tick signals of worker w that are queued, oldest first.
QueuedTicks(w) ==
    SelectSeq(events, LAMBDA e : e.w = w /\ e.kind = "tick")

\* The run of worker w ended with no stop() call, failsafe or exception.
Undisturbed(w) ==
    /\ ~stopReq[w]
    /\ "FAILSAFE" \notin emitted[w]
    /\ "error" \notin emitted[w]

\* C11: within a run the i-th tick carries i times the clicks per tick (2
\* with double_click, else 1), one tick per click action; and a run with
\* single clicks and max_clicks = N > 0 that ends with no stop request,
\* failsafe or exception has emitted N ticks, the last carrying N, and then
\* one stopped.
C11_TickCarriesCount ==
    \A w \in Workers :
        LET cpt == IF cfg[w].double_click THEN 2 ELSE 1
            q == QueuedTicks(w)
        IN
        /\ nTicks[w] = clicks[w]
        /\ lastTick[w] = nTicks[w] * cpt
        /\ \A i \in 1..Len(q) : q[i].n = (nTicks[w] - Len(q) + i) * cpt
        /\ (pc[w] = "done" /\ Undisturbed(w) /\ cfg[w].max_clicks > 0
                /\ ~cfg[w].double_click) =>
               /\ nTicks[w] = cfg[w].max_clicks
               /\ lastTick[w] = cfg[w].max_clicks
               /\ nStopped[w] = 1
               /\ ~late[w]

C11_Witness ==
    \E w \in Workers :
        /\ pc[w] = "done"
        /\ Undisturbed(w)
        /\ ~cfg[w].double_click
        /\ cfg[w].max_clicks = 3
        /\ nTicks[w] = 3
        /\ lbl_clicks = 3

\* No signal of worker w is waiting in the controller's queue.
Drained(w) == \A i \in 1..Len(events) : events[i].w # w

\* C12: from one start_clicking() that resets it to the next, the displayed
\* click count never decreases, and once the stopped of the current run has
\* been handled it is the final counter of that run's worker.
C12_DisplayedCountFollowsRun ==
    /\ [][(CreatedNext = Created) => lbl_clicks' >= lbl_clicks]_vars
    /\ [](\A w \in Workers :
             (w = _worker /\ pc[w] = "done" /\ Drained(w)) => lbl_clicks = _count[w])

\* The controller has handled the started signal of worker w.
StartedHandled(w) ==
    /\ nStarted[w] > 0
    /\ \A i \in 1..Len(events) : ~(events[i].w = w /\ events[i].kind = "started")

\* C13: a signal of the worker of an earlier run, handled while the worker
\* of a later run is the current one, changes neither _running nor what the
\* controller does with its thread and worker; and _running is False only
\* when no worker whose started was handled is still executing.
C13_NoStaleEvents ==
    /\ [][(events # <<>> /\ Head(events).w < _worker /\ Deliver)
             => /\ _running' = _running
                /\ quitReq' = quitReq
                /\ _thread' = _thread
                /\ _worker' = _worker]_vars
    /\ [](~_running => \A w \in Workers : StartedHandled(w) => pc[w] = "done")

\* C14: start_clicking() with an interval of 0 ms creates no thread and no
\* worker, leaves _running, _thread, _worker and the labels as they are, and
\* no worker signal comes of it; unless a run is in progress it shows the
\* validation warning; and no worker ever exists with an interval of 0.
C14_ZeroIntervalRejected ==
    /\ [](\A w \in Workers : pc[w] # "none" => cfg[w].interval_sec > 0)
    /\ [][(\E dbl \in BOOLEAN, lim \in Limits, dly \in Delays :
               StartClicking(0, dbl, lim, dly))
             => /\ CreatedNext = Created
                /\ UNCHANGED <<_running, _thread, _worker, lbl_clicks, lbl_status>>
                /\ UNCHANGED <<wrk, sig>>
                /\ ~_running => msgbox' = "warning"]_vars

C14_Witness ==
    /\ msgbox = "warning"
    /\ Created = {}
    /\ events = <<>>
    /\ ~_running

\* C15: with max_clicks = 0 the limit never ends the run: the limit status
\* is never emitted, the stop flag is set only by a stop() call or the
\* failsafe, and a run that has ended was stopped, hit the failsafe or raised.
C15_ZeroLimitIsUnbounded ==
    \A w \in Workers :
        (pc[w] # "none" /\ cfg[w].max_clicks = 0) =>
            /\ "limit" \notin emitted[w]
            /\ _stop[w] => (stopReq[w] \/ "FAILSAFE" \in emitted[w])
            /\ pc[w] = "done" =>
                   (stopReq[w] \/ "FAILSAFE" \in emitted[w] \/ "error" \in emitted[w])

C15_Witness ==
    \E w \in Workers :
        /\ cfg[w].max_clicks = 0
        /\ _count[w] >= 4
        /\ pc[w] = "inner"
        /\ ~_stop[w]
        /\ nStopped[w] = 0

\* The click actions of worker w after which its run went on.
Advances(w) == clicks[w] - (IF "limit" \in emitted[w] THEN 1 ELSE 0)

\* C16: next_t is the clock reading t0 of the loop's entry plus one interval
\* for each click action that did not end the run, whatever the clock did
\* meanwhile; at a time T the worker has performed at most
\* floor((T - t0) / interval) + 1 click actions; and no sleep comes before
\* the first click action.  (next_t and elapsed are both relative to the
\* current clock reading: next_t - t0 is next_t[w] + elapsed[w].)
C16_NoDrift ==
    \A w \in Workers :
        LET interval == IF cfg[w].interval_sec >= 1 THEN cfg[w].interval_sec ELSE 1 IN
        nStarted[w] > 0 =>
            /\ next_t[w] + elapsed[w] = Advances(w) * interval
            /\ clicks[w] <= (elapsed[w] \div interval) + 1
            /\ pc[w] = "sleep" => clicks[w] >= 1

\* A worker of 3 ms interval that was late for its third click action (7 ms
\* after the loop's entry) and is due again at 9 ms, not at 10.
C16_Witness ==
    \E w \in Workers :
        /\ cfg[w].interval_sec = 3
        /\ clicks[w] = 3
        /\ elapsed[w] = 7
        /\ next_t[w] = 2
        /\ "limit" \notin emitted[w]

\* C17: under fair scheduling and an advancing clock, a run with
\* max_clicks = N > 0 that meets no stop() call, failsafe or exception ends
\* by itself: it emits the limit status and then one stopped, after at most
\* N click actions.
C17_LimitEndsRun ==
    \A w \in Workers :
        /\ (pc[w] = "idle" /\ cfg[w].max_clicks > 0)
              ~> \/ ~Undisturbed(w)
                 \/ /\ pc[w] = "done"
                    /\ "limit" \in emitted[w]
                    /\ nStopped[w] = 1
        /\ [](("limit" \in emitted[w] /\ Undisturbed(w)) =>
                 /\ clicks[w] <= cfg[w].max_clicks
                 /\ clicks[w] * ClicksPerTick(cfg[w]) >= cfg[w].max_clicks
                 /\ ~late[w]
                 /\ nStopped[w] <= 1)

C17_Witness ==
    \E w \in Workers :
        /\ pc[w] = "done"
        /\ Undisturbed(w)
        /\ "limit" \in emitted[w]
        /\ cfg[w].double_click
        /\ cfg[w].start_delay_sec = 2
        /\ clicks[w] = 2
        /\ nStopped[w] = 1

\* C18: a run emits started at most once, with all the "Starting in" statuses
\* of its start delay emitted before it and none after it; no click is
\* attempted and no tick emitted in the countdown or before started; and in
\* the queue a worker's countdown statuses precede its started and its ticks
\* follow it.
C18_StartedAfterCountdown ==
    \A w \in Workers :
        /\ nStarted[w] <= 1
        /\ nCountdown[w] <= cfg[w].start_delay_sec
        /\ nStarted[w] = 1 => nCountdown[w] = cfg[w].start_delay_sec
        /\ (attempts[w] > 0 \/ clicks[w] > 0 \/ nTicks[w] > 0) => nStarted[w] = 1
        /\ pc[w] = "countdown" =>
               /\ nStarted[w] = 0
               /\ attempts[w] = 0
               /\ _count[w] = 0
        /\ \A i, j \in 1..Len(events) :
               (i < j /\ events[i].w = w /\ events[j].w = w) =>
                   /\ ~(events[i].kind = "started" /\ Kind(events[j]) = "Starting in")
                   /\ ~(events[i].kind = "tick" /\ events[j].kind = "started")

C18_Witness ==
    \E w \in Workers :
        /\ cfg[w].start_delay_sec = 2
        /\ nCountdown[w] = 2
        /\ nStarted[w] = 1
        /\ clicks[w] = 1
        /\ Len(events) = 2
        /\ events[1].kind = "started"
        /\ events[2].kind = "tick"

\* C19: a stop_clicking() or panic_stop() call creates no thread or worker
\* and leaves _running, the counters, the displayed count, the queue and the
\* position of every worker as they are; panic_stop() alone changes the
\* status text; with no worker no stop flag changes, and with one only its
\* flag is set; and a worker that has ended does nothing more, whatever is
\* called on it.
C19_StopOnlySetsFlag ==
    /\ [][(stop_clicking \/ panic_stop)
             => /\ CreatedNext = Created
                /\ UNCHANGED <<_running, _thread, _worker, lbl_clicks, quitReq, msgbox>>
                /\ UNCHANGED <<cfg, pc, _count, t, next_t, catch, wake>>
                /\ UNCHANGED <<sig, clicks, attempts>>
                /\ lbl_status' # lbl_status => (panic_stop /\ lbl_status' = "PANIC STOP!")
                /\ _stop' = IF _worker = None THEN _stop
                            ELSE [_stop EXCEPT ![_worker] = TRUE]]_vars
    /\ [][\A w \in Workers :
               pc[w] = "done" =>
                   /\ pc'[w] = "done"
                   /\ _count'[w] = _count[w]
                   /\ nStopped'[w] = nStopped[w]
                   /\ nTicks'[w] = nTicks[w]
                   /\ emitted'[w] = emitted[w]]_vars

\* panic_stop() was called after the run had ended and its last signal had
\* been handled.
C19_Witness ==
    /\ _worker # None
    /\ pc[_worker] = "done"
    /\ _count[_worker] > 0
    /\ events = <<>>
    /\ ~_running
    /\ lbl_status = "PANIC STOP!"

====
